---- MODULE Spec2Model ----
(***************************************************************************)
(* The social-network API: express route handlers over two mongoose        *)
(* models, User and Thought (with embedded Reactions).  The state is the   *)
(* content of the two collections, the ObjectId generator and the last     *)
(* request/response pair.  Every handler is one action: the store calls it *)
(* awaits are applied in the order of the code.  Where a handler awaits    *)
(* two store calls either may throw, leaving the first one's write behind  *)
(* (the `fault` input numbers the call that throws, 0 for none); where it  *)
(* awaits one, the catch block is entered by the validation errors.        *)
(* Requests are served one at a time here: `last` holds the request being  *)
(* answered, the document its store call resolved to and the response,     *)
(* until EndRequest drops them; `before` is a history variable, the two    *)
(* collections as that request found them, read by the properties only.    *)
(* A second specification, SpecConc, serves several requests at a time: a  *)
(* handler is suspended at each await, so its store calls are separate     *)
(* steps, each atomic in the store, and `inflight` holds every accepted    *)
(* request with the call it waits for and what its earlier calls resolved  *)
(* to.  SpecRace is SpecConc without the delete-thought requests.          *)
(*                                                                         *)
(* User handlers: the iteration with the 409 handling (unnamed/part_003);  *)
(* deleteUser, addFriend and removeFriend are the same text in             *)
(* routes/api/userRoutes.js.  Thought handlers: routes/api/thoughtRoutes.js*)
(* Schemas: unnamed/part_004 (User), unnamed/part_001 (Thought, Reaction). *)
(* createdAt timestamps are left out: no handler reads them.               *)
(***************************************************************************)
EXTENDS Integers, Sequences, FiniteSets, TLC

VARIABLES users, thoughts, nextId, last, before, inflight

vars == <<users, thoughts, nextId, last, before, inflight>>

----------------------------------------------------------------------------
(* Bounds of the model *)

\* ObjectIds the generator hands out to created documents: 1..MaxIds (0 is
\* the one made while the reaction schema was being defined)
MaxIds == 3

\* requests the server has accepted and not yet dropped, when it serves
\* several at a time
MaxInFlight == 2

----------------------------------------------------------------------------
(* Values *)

\* what findOne / findOneAndUpdate / findOneAndDelete resolve to on no match
null == [null |-> TRUE]

Usernames == {"lernantino", "amiko"}

\* greg@greg is the address the pattern of the schema rejects
Emails == {"lernantino@gmail.com", "amiko@gmail.com", "greg@greg"}

\* a text over the 280 characters the schemas allow; "" stands for an empty
\* or missing text (required: true rejects both)
LongText == "281 characters"

Range(s) == {s[i] : i \in 1..Len(s)}

\* String length of the text values the model uses
TextLength(t) ==
  CASE t = "" -> 0
    [] t = LongText -> 281
    [] OTHER -> 24

----------------------------------------------------------------------------
(* The document store: update operators and model methods *)

\* { $addToSet: { path: x } }: append x unless an equal element is there
AddToSet(arr, x) == IF x \in Range(arr) THEN arr ELSE Append(arr, x)

\* { $pull: { path: cond } }: drop every element the condition matches,
\* `matched` being the elements it matches
Pull(arr, matched) == SelectSeq(arr, LAMBDA e : e \notin matched)

\* Model.findOne(filter): a document the filter matches, or null; `ids` are
\* the _id values the filter matches
FindOne(coll, ids) ==
  IF ids \cap DOMAIN coll # {}
    THEN coll[CHOOSE id \in ids \cap DOMAIN coll : TRUE]
    ELSE null

\* the collection with document `doc` put in place of the one of the same _id
Replace(coll, doc) == [id \in DOMAIN coll |-> IF id = doc._id THEN doc ELSE coll[id]]

\* the collection without the documents whose _id is in `ids`
Without(coll, ids) == [id \in DOMAIN coll \ ids |-> coll[id]]

\* the collection with the new document `doc`
Inserted(coll, doc) == [id \in DOMAIN coll \cup {doc._id} |-> IF id = doc._id THEN doc ELSE coll[id]]

\* What a handler leaves behind: the two collections, the id generator, the
\* document its store call resolved to, and the response it sent
Result(U, T, n, doc, status, body) ==
  [users |-> U, thoughts |-> T, nextId |-> n, doc |-> doc,
   res |-> [status |-> status, body |-> body]]

\* The catch block: res.status(500).json(err), nothing written by this call
Caught(U, T, n, err) == Result(U, T, n, null, 500, [error |-> err])

----------------------------------------------------------------------------
(* User schema *)

\* email: match /^[\w-\.]+@([\w-]+\.)+[\w-]{2,4}$/ on the emails of the model
MatchEmail(e) == e \in {"lernantino@gmail.com", "amiko@gmail.com"}

\* username and email required, email matching the pattern
ValidUser(body) ==
  /\ body.username # ""
  /\ body.email # ""
  /\ MatchEmail(body.email)

\* the schema with unique: true on username alone
DuplicateKeys_UsernameOnly(body) ==
  {k \in {"username"} : \E id \in DOMAIN users : users[id][k] = body[k]}

\* unique: true on username and on email: the unique indexes a new document
\* with these values would violate
DuplicateKeys(body) ==
  {k \in {"username", "email"} : \E id \in DOMAIN users : users[id][k] = body[k]}

\* The request body cast to the user schema: a generated _id and every path
\* the body carries; the arrays default to []
CastUser(body, id) ==
  [_id |-> id, username |-> body.username, email |-> body.email,
   thoughts |-> IF "thoughts" \in DOMAIN body THEN body.thoughts ELSE <<>>,
   friends |-> <<>>]

\* the virtual friendCount
friendCount(user) == Len(user.friends)

----------------------------------------------------------------------------
(* User handlers *)

\* createUser with the catch block of routes/api/userRoutes.js: every error
\* is answered 500
createUser_Always500(body, pick) ==
  LET user == CastUser(body, nextId)
  IN  IF ~ValidUser(body) THEN Caught(users, thoughts, nextId, "ValidationError")
      ELSE IF DuplicateKeys(body) # {} THEN Caught(users, thoughts, nextId, "MongoServerError")
      ELSE Result(Inserted(users, user), thoughts, nextId + 1, user, 201, user)

\* createUser as in routes/api/userRoutes.js: res.json(user), which is status
\* 200, and every error answered 500
createUser_Json200(body, pick) ==
  LET user == CastUser(body, nextId)
  IN  IF ~ValidUser(body) THEN Caught(users, thoughts, nextId, "ValidationError")
      ELSE IF DuplicateKeys(body) # {} THEN Caught(users, thoughts, nextId, "MongoServerError")
      ELSE Result(Inserted(users, user), thoughts, nextId + 1, user, 200, user)

\* POST /api/users.  `pick` is the index the store names when the insert
\* violates both unique indexes.
createUser(body, pick) ==
  LET dups == DuplicateKeys(body)
      key == IF pick \in dups THEN pick ELSE CHOOSE k \in dups : TRUE
      user == CastUser(body, nextId)
  IN  IF ~ValidUser(body) THEN Caught(users, thoughts, nextId, "ValidationError")
      ELSE IF dups # {}
        THEN Result(users, thoughts, nextId, null, 409,
                    [message |-> <<key, body[key], "already in use">>])
      ELSE Result(Inserted(users, user), thoughts, nextId + 1, user, 201, user)

\* GET /api/users/:userId
getSingleUser(userId) ==
  LET user == FindOne(users, {userId})
  IN  IF user = null
        THEN Result(users, thoughts, nextId, user, 404, [message |-> "No user with that ID"])
      ELSE Result(users, thoughts, nextId, user, 200, user)

\* PUT /api/users/:userId: findOneAndUpdate with the empty update {} and
\* without { new: true }, then res.json(user)
updateUser(userId, body) ==
  LET user == FindOne(users, {userId})
  IN  Result(users, thoughts, nextId, user, 200, user)

\* deleteUser without the cascade: the user's thoughts stay
deleteUser_KeepsThoughts(userId, fault) ==
  LET user == FindOne(users, {userId})
  IN  IF fault = 1 THEN Caught(users, thoughts, nextId, "Error")
      ELSE IF user = null
        THEN Result(users, thoughts, nextId, user, 404, [message |-> "No user with that ID"])
      ELSE IF fault = 2 THEN Caught(Without(users, {userId}), thoughts, nextId, "Error")
      ELSE Result(Without(users, {userId}), thoughts, nextId, user, 200,
                  [message |-> "User and associated thoughts deleted!"])

\* DELETE /api/users/:userId: findOneAndDelete, then Thought.deleteMany on
\* the ids of user.thoughts
deleteUser(userId, fault) ==
  LET user == FindOne(users, {userId})
      U1 == Without(users, {userId})
  IN  IF fault = 1 THEN Caught(users, thoughts, nextId, "Error")
      ELSE IF user = null
        THEN Result(users, thoughts, nextId, user, 404, [message |-> "No user with that ID"])
      ELSE IF fault = 2 THEN Caught(U1, thoughts, nextId, "Error")
      ELSE Result(U1, Without(thoughts, Range(user.thoughts)), nextId, user, 200,
                  [message |-> "User and associated thoughts deleted!"])

\* addFriend with $push in place of $addToSet
addFriend_Push(userId, friendId) ==
  LET found == FindOne(users, {userId})
      user == IF found = null THEN null
              ELSE [found EXCEPT !.friends = Append(@, friendId)]
  IN  IF user = null
        THEN Result(users, thoughts, nextId, user, 404, [message |-> "No user with that ID"])
      ELSE Result(Replace(users, user), thoughts, nextId, user, 200, user)

\* POST /api/users/:userId/friends/:friendId
addFriend(userId, friendId) ==
  LET found == FindOne(users, {userId})
      user == IF found = null THEN null
              ELSE [found EXCEPT !.friends = AddToSet(@, friendId)]
  IN  IF user = null
        THEN Result(users, thoughts, nextId, user, 404, [message |-> "No user with that ID"])
      ELSE Result(Replace(users, user), thoughts, nextId, user, 200, user)

\* removeFriend answering res.json(user) without the !user test
removeFriend_NoNotFound(userId, friendId) ==
  LET found == FindOne(users, {userId})
      user == IF found = null THEN null
              ELSE [found EXCEPT !.friends = AddToSet(@, friendId)]
  IN  IF user = null THEN Result(users, thoughts, nextId, user, 200, user)
      ELSE Result(Replace(users, user), thoughts, nextId, user, 200, user)

\* DELETE /api/users/:userId/friends/:friendId: the update is $addToSet too
removeFriend(userId, friendId) ==
  LET found == FindOne(users, {userId})
      user == IF found = null THEN null
              ELSE [found EXCEPT !.friends = AddToSet(@, friendId)]
  IN  IF user = null
        THEN Result(users, thoughts, nextId, user, 404, [message |-> "No user with that ID"])
      ELSE Result(Replace(users, user), thoughts, nextId, user, 200, user)

----------------------------------------------------------------------------
(* Thought and Reaction schemas *)

\* reactionId: { default: new mongoose.Types.ObjectId() }: the default is
\* the one value made when the schema is defined, not a function
DefaultReactionId == 0

\* required: true, maxlength: 280
ValidText(t) == t # "" /\ TextLength(t) <= 280

\* thoughtText required with maxLength 280, username required
ValidThought(body) == ValidText(body.thoughtText) /\ body.username # ""

\* username required, reactionBody required with maxlength 280
ValidReaction(body) == body.username # "" /\ ValidText(body.reactionBody)

\* The request body cast to the reaction schema: a generated _id, and every
\* path the body carries; reactionId falls back to the schema default
CastReaction(body, id) ==
  [_id |-> id,
   reactionId |-> IF "reactionId" \in DOMAIN body THEN body.reactionId
                  ELSE DefaultReactionId,
   username |-> body.username,
   reactionBody |-> body.reactionBody]

\* the virtual reactionCount
reactionCount(thought) == Len(thought.reactions)

----------------------------------------------------------------------------
(* Thought handlers *)

\* POST /api/thoughts: Thought.create, then $addToSet of the new _id on the
\* user matching { _id: userId, username }
createThought(body, fault) ==
  LET thought == [_id |-> nextId, thoughtText |-> body.thoughtText,
                  username |-> body.username, reactions |-> <<>>]
      T1 == Inserted(thoughts, thought)
      found == FindOne(users, {id \in DOMAIN users :
                 id = body.userId /\ users[id].username = body.username})
      user == IF found = null THEN null
              ELSE [found EXCEPT !.thoughts = AddToSet(@, thought._id)]
  IN  IF ~ValidThought(body) THEN Caught(users, thoughts, nextId, "ValidationError")
      ELSE IF fault = 1 THEN Caught(users, thoughts, nextId, "Error")
      ELSE IF fault = 2 THEN Result(users, T1, nextId + 1, thought, 500, [error |-> "Error"])
      ELSE IF user = null
        THEN Result(users, T1, nextId + 1, thought, 404,
                    [message |-> "Thought created, but found no user with that ID and username",
                     thought |-> thought])
      ELSE Result(Replace(users, user), T1, nextId + 1, thought, 201, thought)

\* GET /api/thoughts/:thoughtId
getSingleThought(thoughtId) ==
  LET thought == FindOne(thoughts, {thoughtId})
  IN  IF thought = null
        THEN Result(users, thoughts, nextId, thought, 404, [message |-> "No thought with that ID"])
      ELSE Result(users, thoughts, nextId, thought, 200, thought)

\* PUT /api/thoughts/:thoughtId: findOneAndUpdate of thoughtText with
\* runValidators and new: true, then res.json(thought)
updateThought(thoughtId, body) ==
  LET found == FindOne(thoughts, {thoughtId})
      thought == IF found = null THEN null
                 ELSE [found EXCEPT !.thoughtText = body.thoughtText]
  IN  IF ~ValidText(body.thoughtText) THEN Caught(users, thoughts, nextId, "ValidationError")
      ELSE IF thought = null THEN Result(users, thoughts, nextId, thought, 200, thought)
      ELSE Result(users, Replace(thoughts, thought), nextId, thought, 200, thought)

\* deleteThought answering 404 at once when no thought matched, with no
\* $pull (the earlier iteration of the handler)
deleteThought_NoPullOnMiss(thoughtId, fault) ==
  LET thought == FindOne(thoughts, {thoughtId})
      T1 == Without(thoughts, {thoughtId})
      U1 == [id \in DOMAIN users |->
              [users[id] EXCEPT !.thoughts = Pull(@, {thoughtId})]]
  IN  IF fault = 1 THEN Caught(users, thoughts, nextId, "Error")
      ELSE IF thought # null
        THEN IF fault = 2
               THEN Result(users, T1, nextId, thought, 500,
                      [message |-> "Deleted thought, but unable to pull the thoughtId from users' thought lists."])
               ELSE Result(U1, T1, nextId, thought, 200, [message |-> "Successfully deleted."])
      ELSE Result(users, thoughts, nextId, thought, 404, [error |-> "No thought with that ID"])

\* deleteThought with an inner catch that answers as on success
deleteThought_ScrubErrorSwallowed(thoughtId, fault) ==
  LET thought == FindOne(thoughts, {thoughtId})
      T1 == Without(thoughts, {thoughtId})
      U1 == [id \in DOMAIN users |->
              [users[id] EXCEPT !.thoughts = Pull(@, {thoughtId})]]
  IN  IF fault = 1 THEN Caught(users, thoughts, nextId, "Error")
      ELSE IF thought # null
        THEN IF fault = 2
               THEN Result(users, T1, nextId, thought, 200, [message |-> "Successfully deleted."])
               ELSE Result(U1, T1, nextId, thought, 200, [message |-> "Successfully deleted."])
      ELSE IF fault = 2 THEN Caught(users, thoughts, nextId, "Error")
      ELSE Result(U1, thoughts, nextId, thought, 404, [error |-> "No thought with that ID"])

\* DELETE /api/thoughts/:thoughtId: findOneAndDelete, then $pull of the id
\* from every user's thoughts, whether or not a thought was found
deleteThought(thoughtId, fault) ==
  LET thought == FindOne(thoughts, {thoughtId})
      T1 == Without(thoughts, {thoughtId})
      U1 == [id \in DOMAIN users |->
              [users[id] EXCEPT !.thoughts = Pull(@, {thoughtId})]]
  IN  IF fault = 1 THEN Caught(users, thoughts, nextId, "Error")
      ELSE IF thought # null
        THEN IF fault = 2
               THEN Result(users, T1, nextId, thought, 500,
                      [message |-> "Deleted thought, but unable to pull the thoughtId from users' thought lists."])
               ELSE Result(U1, T1, nextId, thought, 200, [message |-> "Successfully deleted."])
      ELSE IF fault = 2 THEN Caught(users, thoughts, nextId, "Error")
      ELSE Result(U1, thoughts, nextId, thought, 404, [error |-> "No thought with that ID"])

\* POST /api/thoughts/:thoughtId/reactions: $addToSet of the body, cast to
\* the reaction schema, with runValidators and new: true
addReaction(thoughtId, body) ==
  LET found == FindOne(thoughts, {thoughtId})
      thought == IF found = null THEN null
                 ELSE [found EXCEPT !.reactions = AddToSet(@, CastReaction(body, nextId))]
  IN  IF ~ValidReaction(body) THEN Caught(users, thoughts, nextId, "ValidationError")
      ELSE IF thought = null
        THEN Result(users, thoughts, nextId, thought, 404, [message |-> "No thought with that ID"])
      ELSE Result(users, Replace(thoughts, thought), nextId + 1, thought, 200, thought)

\* DELETE /api/thoughts/:thoughtId/reactions/:reactionId: $pull of the
\* reactions whose reactionId is the parameter, with new: true
removeReaction(thoughtId, reactionId) ==
  LET found == FindOne(thoughts, {thoughtId})
      thought == IF found = null THEN null
                 ELSE [found EXCEPT !.reactions =
                         Pull(@, {r \in Range(found.reactions) : r.reactionId = reactionId})]
  IN  IF thought = null
        THEN Result(users, thoughts, nextId, thought, 404, [message |-> "No thought with that ID"])
      ELSE Result(users, Replace(thoughts, thought), nextId, thought, 200, thought)

----------------------------------------------------------------------------
(* Requests *)

UserBodies == [username : Usernames, email : Emails]

\* bodies of POST /api/users that carry a thoughts array of their own, naming
\* a thought that exists
ListingBodies ==
  {[username |-> "amiko", email |-> "amiko@gmail.com", thoughts |-> <<t>>] :
     t \in DOMAIN thoughts}

\* bodies of PUT /api/users/:userId
UpdateBodies == {[username |-> "amiko", email |-> "amiko@gmail.com"], [username |-> "amiko"]}

\* bodies of POST /api/thoughts: one author name, with the id of any
\* document, and one body without a text
ThoughtBodies ==
  [thoughtText : {"Here's a cool thought..."}, username : {"lernantino"}, userId : 1..MaxIds]
    \cup {[thoughtText |-> "", username |-> "lernantino", userId |-> 1]}

TextBodies == [thoughtText : {"Edited thought", LongText}]

\* the id a friend request names: the first one the generator hands out,
\* whatever it was given to
FriendIds == {1}

\* ids a caller may put in a reaction body or name as :reactionId
CallerReactionIds == {DefaultReactionId, MaxIds}

\* bodies of POST /api/thoughts/:thoughtId/reactions, with and without a
\* reactionId of the caller's own
ReactionBodies ==
  {[reactionBody |-> "I agree", username |-> "lernantino"],
   [reactionBody |-> "I agree", username |-> "lernantino", reactionId |-> MaxIds],
   [reactionBody |-> "", username |-> "lernantino"]}

\* a place for an accepted request that holds none
Free == [pc |-> "free"]

\* no request is being answered
NoRequest == [req |-> [op |-> "none"], doc |-> null, res |-> [status |-> 0, body |-> null]]

Idle == last = NoRequest

\* The request `req` is handled with outcome `r`
Handle(req, r) ==
  /\ Idle
  /\ users' = r.users
  /\ thoughts' = r.thoughts
  /\ nextId' = r.nextId
  /\ last' = [req |-> req, doc |-> r.doc, res |-> r.res]
  /\ before' = [users |-> users, thoughts |-> thoughts]
  /\ UNCHANGED inflight

\* the empty collections after start-up; no request handled yet
Init ==
  /\ users = [id \in {} |-> null]
  /\ thoughts = [id \in {} |-> null]
  /\ nextId = 1
  /\ last = NoRequest
  /\ before = [users |-> users, thoughts |-> thoughts]
  /\ inflight = [i \in 1..MaxInFlight |-> Free]

\* the response is sent and the handler has returned
EndRequest ==
  /\ ~Idle
  /\ last' = NoRequest
  /\ before' = [users |-> users, thoughts |-> thoughts]
  /\ UNCHANGED <<users, thoughts, nextId, inflight>>

\* the model's room for one more document
CanCreate == nextId <= MaxIds

PostUser ==
  \E body \in UserBodies \cup ListingBodies, pick \in {"username", "email"} :
    /\ CanCreate
    /\ Handle([op |-> "createUser", body |-> body], createUser(body, pick))

GetUser ==
  \E userId \in 1..MaxIds :
    Handle([op |-> "getSingleUser", userId |-> userId], getSingleUser(userId))

PutUser ==
  \E userId \in 1..MaxIds, body \in UpdateBodies :
    Handle([op |-> "updateUser", userId |-> userId, body |-> body],
           updateUser(userId, body))

DeleteUser ==
  \E userId \in 1..MaxIds, fault \in 0..2 :
    Handle([op |-> "deleteUser", userId |-> userId], deleteUser(userId, fault))

PostFriend ==
  \E userId \in 1..MaxIds, friendId \in FriendIds :
    Handle([op |-> "addFriend", userId |-> userId, friendId |-> friendId],
           addFriend(userId, friendId))

DeleteFriend ==
  \E userId \in 1..MaxIds, friendId \in FriendIds :
    Handle([op |-> "removeFriend", userId |-> userId, friendId |-> friendId],
           removeFriend(userId, friendId))

PostThought ==
  \E body \in ThoughtBodies, fault \in 0..2 :
    /\ CanCreate
    /\ Handle([op |-> "createThought", body |-> body], createThought(body, fault))

GetThought ==
  \E thoughtId \in 1..MaxIds :
    Handle([op |-> "getSingleThought", thoughtId |-> thoughtId],
           getSingleThought(thoughtId))

PutThought ==
  \E thoughtId \in 1..MaxIds, body \in TextBodies :
    Handle([op |-> "updateThought", thoughtId |-> thoughtId, body |-> body],
           updateThought(thoughtId, body))

DeleteThought ==
  \E thoughtId \in 1..MaxIds, fault \in 0..2 :
    Handle([op |-> "deleteThought", thoughtId |-> thoughtId], deleteThought(thoughtId, fault))

PostReaction ==
  \E thoughtId \in 1..MaxIds, body \in ReactionBodies :
    /\ CanCreate
    /\ Handle([op |-> "addReaction", thoughtId |-> thoughtId, body |-> body],
              addReaction(thoughtId, body))

DeleteReaction ==
  \E thoughtId \in 1..MaxIds, reactionId \in CallerReactionIds :
    Handle([op |-> "removeReaction", thoughtId |-> thoughtId, reactionId |-> reactionId],
           removeReaction(thoughtId, reactionId))

Next ==
  \/ PostUser
  \/ GetUser
  \/ PutUser
  \/ DeleteUser
  \/ PostFriend
  \/ DeleteFriend
  \/ PostThought
  \/ GetThought
  \/ PutThought
  \/ DeleteThought
  \/ PostReaction
  \/ DeleteReaction
  \/ EndRequest

Spec == Init /\ [][Next]_vars

----------------------------------------------------------------------------
(* Requests served several at a time.  Node runs one handler until its     *)
(* next await; the store applies each call atomically.  A step is therefore*)
(* a handler running from one await to the next: its store call and the    *)
(* code after it.  No store call throws here.                              *)

\* bodies these requests carry: valid ones, of the documented fields, each
\* user with an address of its own
ConcUserBodies ==
  {[username |-> "lernantino", email |-> "lernantino@gmail.com"],
   [username |-> "amiko", email |-> "amiko@gmail.com"]}

ConcThoughtBodies == {body \in ThoughtBodies : ValidThought(body)}

\* a handler suspended at the await of store call `pc`, `doc` being what its
\* earlier call resolved to
Suspended(req, pc, doc) == [req |-> req, pc |-> pc, doc |-> doc, res |-> NoRequest.res]

\* a handler that has sent its response
Done(req, doc, status, body) ==
  [req |-> req, pc |-> "done", doc |-> doc, res |-> [status |-> status, body |-> body]]

\* the request takes the first place that holds none
Accept(rec) ==
  \E i \in 1..MaxInFlight :
    /\ inflight[i] = Free
    /\ \A j \in 1..(i - 1) : inflight[j] # Free
    /\ inflight' = [inflight EXCEPT ![i] = rec]

\* POST /api/users: createUser has one await, so it is one step from the
\* request to the response, and it is never found suspended
CreateUserCall ==
  \E body \in ConcUserBodies, pick \in {"username", "email"} :
    LET r == createUser(body, pick)
    IN  /\ CanCreate
        /\ users' = r.users
        /\ nextId' = r.nextId
        /\ UNCHANGED <<thoughts, last, before, inflight>>

\* createThought up to its second await: Thought.create(req.body)
CreateThoughtCreate ==
  \E body \in ConcThoughtBodies :
    LET thought == [_id |-> nextId, thoughtText |-> body.thoughtText,
                    username |-> body.username, reactions |-> <<>>]
    IN  /\ CanCreate
        /\ Accept(Suspended([op |-> "createThought", body |-> body], "link", thought))
        /\ thoughts' = Inserted(thoughts, thought)
        /\ nextId' = nextId + 1
        /\ UNCHANGED <<users, last, before>>

\* createThought answering 201 whatever findOneAndUpdate resolved to
CreateThoughtLink_Always201(i) ==
  LET rec == inflight[i]
      thought == rec.doc
      found == FindOne(users, {id \in DOMAIN users :
                 id = rec.req.body.userId /\ users[id].username = rec.req.body.username})
  IN  /\ rec.pc = "link"
      /\ users' = IF found = null THEN users
                  ELSE Replace(users, [found EXCEPT !.thoughts = AddToSet(@, thought._id)])
      /\ inflight' = [inflight EXCEPT ![i] = Done(rec.req, thought, 201, thought)]
      /\ UNCHANGED <<thoughts, nextId, last, before>>

\* createThought from its second await: User.findOneAndUpdate with
\* $addToSet, then the 404 or the 201
CreateThoughtLink(i) ==
  LET rec == inflight[i]
      thought == rec.doc
      found == FindOne(users, {id \in DOMAIN users :
                 id = rec.req.body.userId /\ users[id].username = rec.req.body.username})
  IN  /\ rec.pc = "link"
      /\ IF found = null
           THEN /\ users' = users
                /\ inflight' = [inflight EXCEPT ![i] = Done(rec.req, thought, 404,
                     [message |-> "Thought created, but found no user with that ID and username",
                      thought |-> thought])]
           ELSE /\ users' = Replace(users, [found EXCEPT !.thoughts = AddToSet(@, thought._id)])
                /\ inflight' = [inflight EXCEPT ![i] = Done(rec.req, thought, 201, thought)]
      /\ UNCHANGED <<thoughts, nextId, last, before>>

\* deleteThought up to its second await: Thought.findOneAndDelete
DeleteThoughtDelete ==
  \E thoughtId \in 1..MaxIds :
    /\ Accept(Suspended([op |-> "deleteThought", thoughtId |-> thoughtId], "pull",
                        FindOne(thoughts, {thoughtId})))
    /\ thoughts' = Without(thoughts, {thoughtId})
    /\ UNCHANGED <<users, nextId, last, before>>

\* deleteThought from its second await: User.updateMany with $pull, in the
\* branch of a found thought and in the other, then the 200 or the 404
DeleteThoughtPull(i) ==
  LET rec == inflight[i]
      thoughtId == rec.req.thoughtId
  IN  /\ rec.pc = "pull"
      /\ users' = [id \in DOMAIN users |->
                    [users[id] EXCEPT !.thoughts = Pull(@, {thoughtId})]]
      /\ inflight' = [inflight EXCEPT ![i] =
           IF rec.doc # null
             THEN Done(rec.req, rec.doc, 200, [message |-> "Successfully deleted."])
             ELSE Done(rec.req, rec.doc, 404, [error |-> "No thought with that ID"])]
      /\ UNCHANGED <<thoughts, nextId, last, before>>

\* deleteUser up to its second await: User.findOneAndDelete, and the 404
\* when it resolved to null
DeleteUserDelete ==
  \E userId \in 1..MaxIds :
    LET user == FindOne(users, {userId})
        req == [op |-> "deleteUser", userId |-> userId]
    IN  /\ IF user = null
             THEN Accept(Done(req, user, 404, [message |-> "No user with that ID"]))
             ELSE Accept(Suspended(req, "deleteMany", user))
        /\ users' = Without(users, {userId})
        /\ UNCHANGED <<thoughts, nextId, last, before>>

\* deleteUser from its second await: Thought.deleteMany on the ids of the
\* thoughts array of the document that findOneAndDelete resolved to
DeleteUserDeleteMany(i) ==
  LET rec == inflight[i]
  IN  /\ rec.pc = "deleteMany"
      /\ thoughts' = Without(thoughts, Range(rec.doc.thoughts))
      /\ inflight' = [inflight EXCEPT ![i] =
           Done(rec.req, rec.doc, 200, [message |-> "User and associated thoughts deleted!"])]
      /\ UNCHANGED <<users, nextId, last, before>>

\* the handler has returned; its request is dropped
Respond(i) ==
  /\ inflight[i].pc = "done"
  /\ inflight' = [inflight EXCEPT ![i] = Free]
  /\ UNCHANGED <<users, thoughts, nextId, last, before>>

NextConc ==
  \/ CreateUserCall
  \/ CreateThoughtCreate
  \/ \E i \in 1..MaxInFlight : CreateThoughtLink(i)
  \/ DeleteThoughtDelete
  \/ \E i \in 1..MaxInFlight : DeleteThoughtPull(i)
  \/ DeleteUserDelete
  \/ \E i \in 1..MaxInFlight : DeleteUserDeleteMany(i)
  \/ \E i \in 1..MaxInFlight : Respond(i)

SpecConc == Init /\ [][NextConc]_vars

\* the same server with no delete-thought request
NextRace ==
  \/ CreateUserCall
  \/ CreateThoughtCreate
  \/ \E i \in 1..MaxInFlight : CreateThoughtLink(i)
  \/ DeleteUserDelete
  \/ \E i \in 1..MaxInFlight : DeleteUserDeleteMany(i)
  \/ \E i \in 1..MaxInFlight : Respond(i)

SpecRace == Init /\ [][NextRace]_vars

----------------------------------------------------------------------------
(* Properties.  A state with last.req.op = h is the state right after      *)
(* handler h answered; `before` holds the collections it started from.     *)

\* the request just answered, and its response status
Answered(op) == last.req.op = op
Status == last.res.status

\* the sequence s without the elements equal to x
Minus(s, x) == SelectSeq(s, LAMBDA e : e # x)

\* how many times x occurs in s
Copies(s, x) == Cardinality({i \in 1..Len(s) : s[i] = x})

\* C1: after DELETE /users/U answered 200 (U existed, no store call threw), U
\* is gone, no thought listed in U.thoughts exists, get-by-id answers 404
\* for U and for each of them, and every thought not listed is still there,
\* as it was.
C1_DeleteUserCascade ==
  (Answered("deleteUser") /\ Status = 200) =>
    LET U == last.req.userId
        listed == Range(before.users[U].thoughts)
    IN  /\ U \in DOMAIN before.users
        /\ U \notin DOMAIN users
        /\ getSingleUser(U).res.status = 404
        /\ \A t \in listed :
             t \notin DOMAIN thoughts /\ getSingleThought(t).res.status = 404
        /\ \A t \in DOMAIN before.thoughts \ listed :
             t \in DOMAIN thoughts /\ thoughts[t] = before.thoughts[t]

\* a user listing a thought was deleted, and an unlisted thought is left
C1_Witness ==
  /\ Answered("deleteUser") /\ Status = 200
  /\ Range(before.users[last.req.userId].thoughts) \cap DOMAIN before.thoughts # {}
  /\ DOMAIN thoughts # {}

\* C2: after DELETE /thoughts/X answered without a store call throwing (200
\* or 404), no user's thoughts contains X, every user is as before but for
\* X removed from its thoughts, and the answer is 404 when no thought X
\* existed.
C2_DeleteThoughtScrub ==
  (Answered("deleteThought") /\ Status # 500) =>
    LET X == last.req.thoughtId
    IN  /\ DOMAIN users = DOMAIN before.users
        /\ \A u \in DOMAIN users :
             /\ X \notin Range(users[u].thoughts)
             /\ users[u] = [before.users[u] EXCEPT !.thoughts = Minus(@, X)]
        /\ X \notin DOMAIN thoughts
        /\ (X \notin DOMAIN before.thoughts) => Status = 404
        /\ (X \in DOMAIN before.thoughts) => Status = 200

\* an existing thought was deleted and taken out of a list that keeps
\* another id
C2_Witness ==
  /\ Answered("deleteThought") /\ Status = 200
  /\ \E u \in DOMAIN users :
       /\ last.req.thoughtId \in Range(before.users[u].thoughts)
       /\ users[u].thoughts # <<>>

\* no thought matched, and a stale id was still taken out of a user's list
C2_WitnessStale ==
  /\ Answered("deleteThought") /\ Status = 404
  /\ \E u \in DOMAIN users : last.req.thoughtId \in Range(before.users[u].thoughts)

C4_RemoveFriendRemoves ==
  (Answered("removeFriend") /\ Status = 200) =>
    LET U == last.req.userId
        F == last.req.friendId
    IN  /\ users[U].friends = Minus(before.users[U].friends, F)
        /\ F \notin Range(users[U].friends)

\* what remove-friend does: it answers 200 with F in U.friends, nothing else
\* of the store changed
C4_RemoveFriendAdds ==
  (Answered("removeFriend") /\ Status = 200) =>
    LET U == last.req.userId
        F == last.req.friendId
    IN  /\ users[U].friends = AddToSet(before.users[U].friends, F)
        /\ \A u \in DOMAIN users \ {U} : users[u] = before.users[u]
        /\ thoughts = before.thoughts

\* the reactions of thought X as the request being answered found them
ReactionsBefore(X) == before.thoughts[X].reactions

\* the reactionId values on a sequence of reactions
ReactionIds(rs) == {rs[i].reactionId : i \in 1..Len(rs)}

\* C5: after add-reaction on an existing thought X answered 200, X has one
\* more reaction, the new one's reactionId is on no reaction X had, it is not
\* the id the caller put in the body, and the reactionIds on X are pairwise
\* distinct.
C5_ReactionIdFresh ==
  (Answered("addReaction") /\ Status = 200) =>
    LET X == last.req.thoughtId
        rs == thoughts[X].reactions
        new == rs[Len(rs)]
    IN  /\ reactionCount(thoughts[X]) = Len(ReactionsBefore(X)) + 1
        /\ new.reactionId \notin ReactionIds(ReactionsBefore(X))
        /\ ("reactionId" \in DOMAIN last.req.body) => new.reactionId # last.req.body.reactionId
        /\ \A i, j \in 1..Len(rs) : i # j => rs[i].reactionId # rs[j].reactionId

\* C5 for bodies that carry no reactionId: the new reaction's reactionId is
\* on no reaction X had
C5_FreshAmongDefaults ==
  (Answered("addReaction") /\ Status = 200 /\ "reactionId" \notin DOMAIN last.req.body) =>
    LET rs == thoughts[last.req.thoughtId].reactions
    IN  rs[Len(rs)].reactionId \notin ReactionIds(ReactionsBefore(last.req.thoughtId))

\* what add-reaction does keep: one more reaction, appended, with an _id
\* that no reaction of X had
C5_ReactionCountAndKey ==
  (Answered("addReaction") /\ Status = 200) =>
    LET X == last.req.thoughtId
        rs == thoughts[X].reactions
    IN  /\ reactionCount(thoughts[X]) = Len(ReactionsBefore(X)) + 1
        /\ SubSeq(rs, 1, Len(rs) - 1) = ReactionsBefore(X)
        /\ \A i, j \in 1..Len(rs) : i # j => rs[i]._id # rs[j]._id

\* C6: after remove-reaction(X, R) answered 200, the reactions of X are the
\* previous ones without the one reaction identified by R: at most one
\* reaction is gone (none added by another add-reaction call), and nothing
\* changed when no reaction matched R.
C6_RemoveReactionById ==
  (Answered("removeReaction") /\ Status = 200) =>
    LET X == last.req.thoughtId
        R == last.req.reactionId
        rs == thoughts[X].reactions
    IN  /\ rs = SelectSeq(ReactionsBefore(X), LAMBDA r : r.reactionId # R)
        /\ Len(ReactionsBefore(X)) - Len(rs) <= 1
        /\ (R \notin ReactionIds(ReactionsBefore(X))) => rs = ReactionsBefore(X)

\* what remove-reaction does keep: every reaction whose reactionId is R is
\* gone, the others stay in order
C6_RemoveReactionPullsAll ==
  (Answered("removeReaction") /\ Status = 200) =>
    LET X == last.req.thoughtId
        R == last.req.reactionId
    IN  thoughts[X].reactions = SelectSeq(ReactionsBefore(X), LAMBDA r : r.reactionId # R)

\* the users whose field k has the value of the request body
Holders(k) == {id \in DOMAIN before.users : before.users[id][k] = last.req.body[k]}

C8_UniqueUsernameEmail ==
  \A a, b \in DOMAIN users :
    a # b => users[a].username # users[b].username /\ users[a].email # users[b].email

\* two users exist and a create-user was turned down for a duplicate
C8_Witness ==
  /\ Cardinality(DOMAIN users) = 2
  /\ Answered("createUser") /\ Status = 409

\* C9: update-thought with a valid text on an id that identifies no thought
\* answers 404 and changes nothing.
C9_UpdateMissingThought404 ==
  (/\ Answered("updateThought")
   /\ ValidText(last.req.body.thoughtText)
   /\ last.req.thoughtId \notin DOMAIN before.thoughts) =>
    /\ Status = 404
    /\ thoughts = before.thoughts /\ users = before.users

\* what update-thought does on such an id: nothing changes, the answer is
\* 200 with null
C9_UpdateMissingThoughtNoMutation ==
  (/\ Answered("updateThought")
   /\ ValidText(last.req.body.thoughtText)
   /\ last.req.thoughtId \notin DOMAIN before.thoughts) =>
    /\ Status = 200 /\ last.res.body = null
    /\ thoughts = before.thoughts /\ users = before.users

\* the users matching { _id: userId, username } of the request body
Authors ==
  {id \in DOMAIN before.users :
     id = last.req.body.userId /\ before.users[id].username = last.req.body.username}

\* the store after create-thought: the new thought exists and is retrievable,
\* its id is appended to the thoughts of the matching user, and every other
\* user (all of them when none matches) is unchanged
CreateThoughtLinked ==
  LET T == last.doc._id
  IN  /\ T \notin DOMAIN before.thoughts
      /\ getSingleThought(T).res.status = 200
      /\ DOMAIN users = DOMAIN before.users
      /\ \A u \in DOMAIN users :
           users[u] = IF u \in Authors
                        THEN [before.users[u] EXCEPT !.thoughts = Append(@, T)]
                        ELSE before.users[u]

\* C10: create-thought with a valid body and no store call throwing creates
\* the thought and links it to exactly the user matching userId and
\* username; when there is none the answer is still a success status (200 or
\* 201) with the entity and a linkage message.
C10_CreateThoughtLinkage ==
  (Answered("createThought") /\ ValidThought(last.req.body) /\ Status # 500) =>
    /\ CreateThoughtLinked
    /\ Status \in {200, 201}
    /\ (Authors = {}) => "message" \in DOMAIN last.res.body

\* what create-thought does keep: the store effect, 201 when linked, and the
\* message with the entity, under status 404, when no user matched
C10_CreateThoughtStore ==
  (Answered("createThought") /\ ValidThought(last.req.body) /\ Status # 500) =>
    /\ CreateThoughtLinked
    /\ (Authors # {}) => Status = 201
    /\ (Authors = {}) =>
         /\ Status = 404
         /\ "message" \in DOMAIN last.res.body
         /\ last.res.body.thought = thoughts[last.doc._id]

\* the users other than U that hold a value the body of the request supplies
Taken(U) ==
  {id \in DOMAIN before.users \ {U} :
     \E k \in DOMAIN last.req.body : before.users[id][k] = last.req.body[k]}

\* C11: PUT /users/U with {username?, email?} on an existing user U (the
\* values in use by no other user) sets U's supplied fields to the given
\* values, leaves U's thoughts and friends, every other user and the number of
\* users as they were, and answers 200 with the updated user; when U does not
\* exist the answer is 404.
C11_UpdateUserApplies ==
  (Answered("updateUser") /\ Taken(last.req.userId) = {}) =>
    LET U == last.req.userId
        body == last.req.body
    IN  IF U \in DOMAIN before.users
          THEN /\ Status = 200
               /\ DOMAIN users = DOMAIN before.users
               /\ \A k \in DOMAIN body : users[U][k] = body[k]
               /\ users[U].thoughts = before.users[U].thoughts
               /\ users[U].friends = before.users[U].friends
               /\ \A u \in DOMAIN users \ {U} : users[u] = before.users[u]
               /\ last.res.body = users[U]
          ELSE Status = 404

\* what update-user does: nothing is written, and the answer is 200 with the
\* user as it was, or with null when there is none
C11_UpdateUserNoEffect ==
  Answered("updateUser") =>
    /\ Status = 200
    /\ users = before.users /\ thoughts = before.thoughts
    /\ last.res.body = FindOne(before.users, {last.req.userId})

\* C12: add-friend(U, F) on an existing user U with an F that identifies no
\* user is rejected (a status other than 200) and leaves U.friends as it was,
\* so that add-friend stores no id that is not a user's at that time.
C12_AddFriendValidatesFriend ==
  (/\ Answered("addFriend")
   /\ last.req.userId \in DOMAIN before.users
   /\ last.req.friendId \notin DOMAIN before.users) =>
    /\ Status # 200
    /\ users[last.req.userId].friends = before.users[last.req.userId].friends

\* what add-friend does with such an F: it answers 200 with F stored in
\* U.friends
C12_AddFriendStoresAnyId ==
  (/\ Answered("addFriend")
   /\ last.req.userId \in DOMAIN before.users
   /\ last.req.friendId \notin DOMAIN before.users) =>
    /\ Status = 200
    /\ last.req.friendId \in Range(users[last.req.userId].friends)
    /\ last.res.body = users[last.req.userId]

UserWrites == {"deleteUser", "addFriend", "removeFriend"}

CleanupFailed ==
  [message |-> "Deleted thought, but unable to pull the thoughtId from users' thought lists."]

\* C15: when delete-thought removed an existing thought X, either the answer
\* is the success message with status 200 and no user lists X, or the $pull
\* threw: then X stays deleted (get-by-id 404), the users are as the request
\* found them (the $pull is not tried again, so X may stay in a list), and
\* the answer is status 500 with the cleanup-failed message, which is given
\* in no other case.
C15_DeleteThoughtFailedScrub ==
  (Answered("deleteThought") /\ last.req.thoughtId \in DOMAIN before.thoughts) =>
    LET X == last.req.thoughtId
    IN  /\ (X \notin DOMAIN thoughts) =>
             \/ /\ Status = 200
                /\ last.res.body = [message |-> "Successfully deleted."]
                /\ \A u \in DOMAIN users : X \notin Range(users[u].thoughts)
             \/ /\ Status = 500
                /\ last.res.body = CleanupFailed
                /\ users = before.users
                /\ getSingleThought(X).res.status = 404
        /\ (last.res.body = CleanupFailed) => X \notin DOMAIN thoughts

\* the thought is deleted, the answer is the cleanup-failed one and a user
\* still lists the id
C15_Witness ==
  /\ Answered("deleteThought") /\ Status = 500
  /\ last.res.body = CleanupFailed
  /\ last.req.thoughtId \notin DOMAIN thoughts
  /\ \E u \in DOMAIN users : last.req.thoughtId \in Range(users[u].thoughts)

\* every accepted request has sent its response
Quiescent == \A i \in 1..MaxInFlight : inflight[i].pc \in {"free", "done"}

\* C16: with create-thought, delete-thought and delete-user requests served
\* several at a time, interleaved at their store calls, none of which throws,
\* in every state where no request is in flight each id in a user's thoughts
\* is the id of an existing thought.
C16_NoDanglingThoughtRefs ==
  Quiescent =>
    \A u \in DOMAIN users : Range(users[u].thoughts) \subseteq DOMAIN thoughts

\* the accepted requests that have answered, by handler
Completed(op) ==
  {i \in 1..MaxInFlight : inflight[i].pc = "done" /\ inflight[i].req.op = op}

\* C17: once a create-thought naming user U and a delete-user of U that
\* deleted U have both answered, the new thought does not exist or the
\* create-thought answer was the 404 saying that no user was found to link
\* it to: a thought answered 201, linked to U, does not outlive U's deletion.
C17_LinkedThoughtDiesWithUser ==
  \A a \in Completed("createThought"), b \in Completed("deleteUser") :
    (/\ inflight[a].req.body.userId = inflight[b].req.userId
     /\ inflight[b].res.status = 200) =>
      \/ inflight[a].doc._id \notin DOMAIN thoughts
      \/ /\ inflight[a].res.status = 404
         /\ "message" \in DOMAIN inflight[a].res.body

\* both have answered, the delete-user with 200 for the user whose id and
\* username the create-thought named, which was told 404: the thought is there
C17_Witness ==
  \E a \in Completed("createThought"), b \in Completed("deleteUser") :
    /\ inflight[b].res.status = 200
    /\ inflight[b].doc._id = inflight[a].req.body.userId
    /\ inflight[b].doc.username = inflight[a].req.body.username
    /\ inflight[a].res.status = 404
    /\ inflight[a].doc._id \in DOMAIN thoughts

\* the users whose thoughts hold the id t
Owners(t) == {u \in DOMAIN users : t \in Range(users[u].thoughts)}

\* C18: in every reachable state each thought id is in the thoughts of at
\* most one user, and at most once in it.
C18_SingleOwnership ==
  \A t \in 1..MaxIds :
    /\ Cardinality(Owners(t)) <= 1
    /\ \A u \in Owners(t) : Copies(users[u].thoughts, t) = 1

\* what does hold: an id is never twice in one user's thoughts
C18_NoCopyInOneList ==
  \A t \in 1..MaxIds : \A u \in Owners(t) : Copies(users[u].thoughts, t) = 1

====
